---- MODULE Spec2Model ----
(***************************************************************************)
(* Tic-Tac-Toe with a minimax / alpha-beta engine (src/Chatbot.py, the     *)
(* "tic taktoe.py" part, lines 45-282).                                     *)
(*                                                                         *)
(* The specifications share the board model and the search:                *)
(*   Spec        play_game: the prompts, the turn loop, the final report.  *)
(*   FairSpec    Spec, with the human answering every prompt in the end.   *)
(*   EngineSpec  the search called on every board alternating play can     *)
(*               reach, with every alpha/beta window a search can pass.    *)
(***************************************************************************)
EXTENDS Integers, Sequences, FiniteSets, TLC

VARIABLES
    board,          \* the 9 cells, indexed 0..8
    current,        \* the mark to be placed next
    human_player,   \* play_game: the human's mark
    ai_player,      \* play_game: the AI's mark
    first,          \* play_game: the answer to "Who moves first?"
    human_turn,     \* play_game: the flag derived from first
    pc,             \* position of the program
    msg,            \* the last console message that matters to the flow
    ret,            \* engine: what the last best_move_for call returned
    mm,             \* engine: what the last direct minimax call returned
    selfplay,       \* engine: every mark so far was placed from best_move_for
    result          \* play_game: the outcome announced at the end

vars == <<board, current, human_player, ai_player, first, human_turn, pc,
          msg, ret, mm, selfplay, result>>

(***************************************************************************)
(* Values                                                                  *)
(***************************************************************************)
\* Python's None in a cell or in a not-yet-assigned string variable.
None == "None"

\* Python's None in the move position of a search result.
NoMove == -1

\* math.inf and -math.inf; every score they are compared with is in -1..1.
PosInf == 2

NegInf == -2

Cells == 0 .. 8

new_board == [i \in Cells |-> None]

(***************************************************************************)
(* Board model                                                             *)
(***************************************************************************)
\* board[a] and board[a] == board[b] == board[c]
LineHit(b, x, y, z) == b[x] # None /\ b[x] = b[y] /\ b[y] = b[z]

\* The loop over WIN_LINES unrolled in the order of the source: the first
\* completed line decides.
check_winner(b) ==
    IF LineHit(b, 0, 1, 2) THEN b[0]
    ELSE IF LineHit(b, 3, 4, 5) THEN b[3]
    ELSE IF LineHit(b, 6, 7, 8) THEN b[6]
    ELSE IF LineHit(b, 0, 3, 6) THEN b[0]
    ELSE IF LineHit(b, 1, 4, 7) THEN b[1]
    ELSE IF LineHit(b, 2, 5, 8) THEN b[2]
    ELSE IF LineHit(b, 0, 4, 8) THEN b[0]
    ELSE IF LineHit(b, 2, 4, 6) THEN b[2]
    ELSE None

is_board_full(b) == \A i \in Cells : b[i] # None

\* game_over without the test for a winner: only a full board ends the game.
game_over_FullOnly(b) == is_board_full(b)

\* Mutant of game_over: a full board without a winner does not end the game.
game_over_WinOnly(b) == check_winner(b) # None

game_over(b) == check_winner(b) # None \/ is_board_full(b)

CellSeq == <<0, 1, 2, 3, 4, 5, 6, 7, 8>>

\* The empty cells listed from the highest index down.
available_moves_Descending(b) ==
    SelectSeq(<<8, 7, 6, 5, 4, 3, 2, 1, 0>>, LAMBDA i : b[i] = None)

\* [i for i, v in enumerate(board) if v is None]: ascending order.
available_moves(b) == SelectSeq(CellSeq, LAMBDA i : b[i] = None)

opponent(player) == IF player = "X" THEN "O" ELSE "X"

(***************************************************************************)
(* minimax with alpha-beta pruning.  The board is one mutable object: a    *)
(* call receives it, writes to it and hands it back, so a result carries   *)
(* the board as the call left it.                                          *)
(***************************************************************************)
MaxOf(a, b) == IF a >= b THEN a ELSE b

MinOf(a, b) == IF a <= b THEN a ELSE b

\* Mutant of Undo: the cell keeps the mark tried.
Undo_Forgotten(b, mv) == b

\* board[mv] = None after the recursive call
Undo(b, mv) == [b EXCEPT ![mv] = None]

\* Mutant of Cutoff: the loop breaks one score too early.
Cutoff_TooEager(alpha, beta) == beta <= alpha + 1

\* if beta <= alpha: break
Cutoff(alpha, beta) == beta <= alpha

RECURSIVE minimax(_, _, _, _, _)
RECURSIVE MaxLoop(_, _, _, _, _, _, _)
RECURSIVE MinLoop(_, _, _, _, _, _, _)

\* The for loop of the maximizing branch, at the head of the remaining moves.
MaxLoop(b, player, moves, alpha, beta, max_eval, best_move) ==
    IF moves = << >>
    THEN [score |-> max_eval, move |-> best_move, board |-> b]
    ELSE LET mv == Head(moves)
             r  == minimax([b EXCEPT ![mv] = player], opponent(player),
                           FALSE, alpha, beta)
             b2 == Undo(r.board, mv)
             better == r.score > max_eval
             ne == IF better THEN r.score ELSE max_eval
             nb == IF better THEN mv ELSE best_move
             na == MaxOf(alpha, r.score)
         IN  IF Cutoff(na, beta)
             THEN [score |-> ne, move |-> nb, board |-> b2]
             ELSE MaxLoop(b2, player, Tail(moves), na, beta, ne, nb)

\* The for loop of the minimizing branch.
MinLoop(b, player, moves, alpha, beta, min_eval, best_move) ==
    IF moves = << >>
    THEN [score |-> min_eval, move |-> best_move, board |-> b]
    ELSE LET mv == Head(moves)
             r  == minimax([b EXCEPT ![mv] = player], opponent(player),
                           TRUE, alpha, beta)
             b2 == Undo(r.board, mv)
             better == r.score < min_eval
             ne == IF better THEN r.score ELSE min_eval
             nb == IF better THEN mv ELSE best_move
             nbeta == MinOf(beta, r.score)
         IN  IF Cutoff(alpha, nbeta)
             THEN [score |-> ne, move |-> nb, board |-> b2]
             ELSE MinLoop(b2, player, Tail(moves), alpha, nbeta, ne, nb)

\* minimax without the draw test of lines 151-152.
minimax_NoDrawCheck(b, player, maximizing, alpha, beta) ==
    LET winner == check_winner(b)
    IN  IF winner = "X" THEN [score |-> 1, move |-> NoMove, board |-> b]
        ELSE IF winner = "O" THEN [score |-> -1, move |-> NoMove, board |-> b]
        ELSE IF maximizing
             THEN MaxLoop(b, player, available_moves(b), alpha, beta,
                          NegInf, NoMove)
             ELSE MinLoop(b, player, available_moves(b), alpha, beta,
                          PosInf, NoMove)

minimax(b, player, maximizing, alpha, beta) ==
    LET winner == check_winner(b)
    IN  IF winner = "X" THEN [score |-> 1, move |-> NoMove, board |-> b]
        ELSE IF winner = "O" THEN [score |-> -1, move |-> NoMove, board |-> b]
        ELSE IF is_board_full(b) THEN [score |-> 0, move |-> NoMove, board |-> b]
        ELSE IF maximizing
             THEN MaxLoop(b, player, available_moves(b), alpha, beta,
                          NegInf, NoMove)
             ELSE MinLoop(b, player, available_moves(b), alpha, beta,
                          PosInf, NoMove)

\* Mutant of OpeningCells: the opening is drawn from all nine cells.
OpeningCells_AllCells == 0 .. 8

\* random.choice([0, 2, 4, 6, 8])
OpeningCells == {0, 2, 4, 6, 8}

\* if all(v is None for v in board)
IsEmptyBoard(b) == \A i \in Cells : b[i] = None

\* Mutant of best_move_for: X is searched as the minimizing side and O as
\* the maximizing side.
best_move_for_SwappedPolarity(b, ai) ==
    IF IsEmptyBoard(b)
    THEN {[move |-> m, board |-> b, searched |-> FALSE] : m \in OpeningCells}
    ELSE IF ai = "X"
         THEN LET r == minimax(b, "X", FALSE, NegInf, PosInf)
              IN  {[move |-> r.move, board |-> r.board, searched |-> TRUE]}
         ELSE LET r == minimax(b, "O", TRUE, NegInf, PosInf)
              IN  {[move |-> r.move, board |-> r.board, searched |-> TRUE]}

\* Mutant of best_move_for: the first empty cell, without a search.
best_move_for_FirstFree(b, ai) ==
    IF IsEmptyBoard(b)
    THEN {[move |-> m, board |-> b, searched |-> FALSE] : m \in OpeningCells}
    ELSE {[move |-> IF available_moves(b) = << >> THEN NoMove
                    ELSE Head(available_moves(b)),
           board |-> b, searched |-> TRUE]}

\* best_move_for with a default: the centre when the search returns no move.
best_move_for_DefaultCentre(b, ai) ==
    IF IsEmptyBoard(b)
    THEN {[move |-> m, board |-> b, searched |-> FALSE] : m \in OpeningCells}
    ELSE LET r == minimax(b, ai, ai = "X", NegInf, PosInf)
         IN  {[move |-> IF r.move = NoMove THEN 4 ELSE r.move,
               board |-> r.board, searched |-> TRUE]}

\* Every result a call can produce: the move, the board as the call left it,
\* and whether the call ran the search.
best_move_for(b, ai) ==
    IF IsEmptyBoard(b)
    THEN {[move |-> m, board |-> b, searched |-> FALSE] : m \in OpeningCells}
    ELSE IF ai = "X"
         THEN LET r == minimax(b, "X", TRUE, NegInf, PosInf)
              IN  {[move |-> r.move, board |-> r.board, searched |-> TRUE]}
         ELSE LET r == minimax(b, "O", FALSE, NegInf, PosInf)
              IN  {[move |-> r.move, board |-> r.board, searched |-> TRUE]}

(***************************************************************************)
(* Spec: play_game                                                         *)
(***************************************************************************)
\* ret and mm before any call.
NoRet == [move |-> NoMove, board |-> new_board, searched |-> FALSE,
          ai |-> None]

NoMM == [score |-> 0, move |-> NoMove, board |-> new_board,
         alpha |-> NegInf, beta |-> PosInf]

\* What the user may type at the two set-up prompts.
MarkInputs == {"X", "O", " x", "o ", "Z"}

FirstInputs == {"", "H", "A", "h", " a ", "Q"}

\* str.strip().upper() on the inputs above.
StripUpper(s) ==
    CASE s = " x" -> "X"
      [] s = "o " -> "O"
      [] s = "h" -> "H"
      [] s = " a " -> "A"
      [] OTHER -> s

\* What the user may type at the move prompt.
MoveInputs == {"0", "1", "2", "3", "4", "5", "6", "7", "8", "9", " 5 ",
               "10", "-1", "x", ""}

\* int(s.strip()) raises ValueError on these.
RaisesValueError(s) == s \in {"x", ""}

\* int(s.strip()) on the others.
ParseInt(s) ==
    CASE s = "0" -> 0 [] s = "1" -> 1 [] s = "2" -> 2 [] s = "3" -> 3
      [] s = "4" -> 4 [] s = "5" -> 5 [] s = "6" -> 6 [] s = "7" -> 7
      [] s = "8" -> 8 [] s = "9" -> 9 [] s = " 5 " -> 5 [] s = "10" -> 10
      [] s = "-1" -> -1

\* human_move without the test of line 206 that the cell is free.
human_move_NoTakenCheck(b, s) ==
    IF RaisesValueError(s)
    THEN [ok |-> FALSE, pos |-> NoMove,
          msg |-> "Please enter a valid number (1-9)."]
    ELSE LET pos == ParseInt(s) - 1
         IN  IF pos < 0 \/ pos > 8
             THEN [ok |-> FALSE, pos |-> pos,
                   msg |-> "Please enter a number from 1 to 9."]
             ELSE [ok |-> TRUE, pos |-> pos, msg |-> ""]

\* One pass of the while loop of human_move on the input s: the cell it
\* returns, or the message it prints before it asks again.
human_move(b, s) ==
    IF RaisesValueError(s)
    THEN [ok |-> FALSE, pos |-> NoMove,
          msg |-> "Please enter a valid number (1-9)."]
    ELSE LET pos == ParseInt(s) - 1
         IN  IF pos < 0 \/ pos > 8
             THEN [ok |-> FALSE, pos |-> pos,
                   msg |-> "Please enter a number from 1 to 9."]
             ELSE IF b[pos] # None
             THEN [ok |-> FALSE, pos |-> pos,
                   msg |-> "That spot is already taken. Choose another."]
             ELSE [ok |-> TRUE, pos |-> pos, msg |-> ""]

\* The start of play_game.  board and current are assigned only after the
\* prompts (lines 236-237); until then board is shown empty and current None.
Init ==
    /\ board = new_board
    /\ current = None
    /\ human_player = None
    /\ ai_player = None
    /\ first = None
    /\ human_turn = FALSE
    /\ pc = "ask_mark"
    /\ msg = ""
    /\ result = None
    /\ ret = NoRet
    /\ mm = NoMM
    /\ selfplay = FALSE

\* while True: human_player = input(...).strip().upper() ...
AskMark ==
    /\ pc = "ask_mark"
    /\ \E s \in MarkInputs :
          /\ human_player' = StripUpper(s)
          /\ IF human_player' \in {"X", "O"}
             THEN /\ ai_player' = opponent(human_player')
                  /\ pc' = "ask_first"
                  /\ msg' = ""
             ELSE /\ msg' = "Please enter X or O."
                  /\ UNCHANGED <<ai_player, pc>>
    /\ UNCHANGED <<board, current, first, human_turn, ret, mm, selfplay, result>>

\* while True: first = input(...).strip().upper() ... ; then the set-up of
\* human_turn, board and current.
AskFirst ==
    /\ pc = "ask_first"
    /\ \E s \in FirstInputs :
          /\ first' = StripUpper(s)
          /\ IF first' \in {"", "H", "A"}
             THEN /\ human_turn' = (first' # "A")
                  /\ board' = new_board
                  /\ current' = "X"
                  /\ pc' = "loop"
                  /\ msg' = ""
             ELSE /\ msg' = "Enter H or A (or just press Enter for Human first)."
                  /\ UNCHANGED <<human_turn, board, current, pc>>
    /\ UNCHANGED <<human_player, ai_player, ret, mm, selfplay, result>>

\* if human_turn and current == human_player
Branch1 == human_turn /\ current = human_player

\* elif not human_turn and current == ai_player
Branch2 == ~human_turn /\ current = ai_player

\* The human's branch taken on the flag human_turn alone.
HumanBranch_ByFlag == human_turn

\* The branches of the loop body in which human_move is called.
HumanBranch == Branch1 \/ (~Branch1 /\ ~Branch2 /\ current = human_player)

\* The AI's branch taken on the flag human_turn alone.
AIBranch_ByFlag == ~human_turn

\* The branches of the loop body in which best_move_for is called.
AIBranch == (~Branch1 /\ Branch2) \/ (~Branch1 /\ ~Branch2 /\ current # human_player)

\* human_turn as the branch taken leaves it.
NextHumanTurn ==
    IF Branch1 THEN FALSE ELSE IF Branch2 THEN TRUE ELSE ~human_turn

\* The loop body when it is the human who moves: one input at the prompt of
\* human_move; a rejected input prints its message and asks again.
HumanMove ==
    /\ pc = "loop"
    /\ ~game_over(board)
    /\ HumanBranch
    /\ \E s \in MoveInputs :
          \E h \in {human_move(board, s)} :
             IF h.ok
             THEN /\ board' = [board EXCEPT ![h.pos] = human_player]
                  /\ human_turn' = NextHumanTurn
                  /\ current' = opponent(current)
                  /\ msg' = ""
             ELSE /\ msg' = h.msg
                  /\ UNCHANGED <<board, human_turn, current>>
    /\ UNCHANGED <<human_player, ai_player, first, pc, ret, mm, selfplay, result>>

\* The loop body when it is the AI that moves.  pos + 1 with pos = None
\* raises TypeError.
AIMove ==
    /\ pc = "loop"
    /\ ~game_over(board)
    /\ AIBranch
    /\ \E r \in best_move_for(board, ai_player) :
          IF r.move = NoMove
          THEN /\ board' = r.board
               /\ pc' = "TypeError"
               /\ UNCHANGED <<human_turn, current>>
          ELSE /\ board' = [r.board EXCEPT ![r.move] = ai_player]
               /\ human_turn' = NextHumanTurn
               /\ current' = opponent(current)
               /\ pc' = "loop"
    /\ msg' = ""
    /\ UNCHANGED <<human_player, ai_player, first, ret, mm, selfplay, result>>

\* if game_over(board): break; then the final report.
Finish ==
    /\ pc = "loop"
    /\ game_over(board)
    /\ \E winner \in {check_winner(board)} :
          result' = IF winner # None
                    THEN (IF winner = human_player THEN "human wins" ELSE "AI wins")
                    ELSE "draw"
    /\ pc' = "done"
    /\ UNCHANGED <<board, current, human_player, ai_player, first, human_turn,
                   msg, ret, mm, selfplay>>

Next == AskMark \/ AskFirst \/ HumanMove \/ AIMove \/ Finish

Spec == Init /\ [][Next]_vars

\* It is the AI's turn: the loop is about to call best_move_for.
AITurn == pc = "loop" /\ ~game_over(board) /\ AIBranch

\* The human answers a prompt with an input the program accepts.
ValidAnswer == (AskMark \/ AskFirst \/ HumanMove) /\ (pc' # pc \/ board' # board)

\* The AI's branch of the loop body runs to its end: a mark of the AI is
\* placed.  In Spec these are the steps of AIMove that return a cell.
AIPlacesMark ==
    /\ AITurn
    /\ \E i \in Cells :
          /\ board[i] = None
          /\ board' = [board EXCEPT ![i] = ai_player]
    /\ human_turn' = NextHumanTurn
    /\ current' = opponent(current)
    /\ msg' = ""
    /\ UNCHANGED <<human_player, ai_player, first, pc, ret, mm, selfplay, result>>

\* The human answers every prompt with an accepted input in the end; the
\* program's own steps are not delayed for ever.
FairSpec ==
    Spec /\ WF_vars(ValidAnswer) /\ WF_vars(AIPlacesMark) /\ WF_vars(Finish)

(***************************************************************************)
(* EngineSpec: the engine on every board of alternating play               *)
(***************************************************************************)
\* The windows a search passes down: alpha is -inf or a score that did not
\* cut off, beta is +inf or a score that did not cut off, and alpha < beta.
Windows ==
    {w \in {NegInf, -1, 0, 1} \X {-1, 0, 1, PosInf} : w[1] < w[2]}

FullWindow == <<NegInf, PosInf>>

GameVarsIdle ==
    /\ human_player = None
    /\ ai_player = None
    /\ first = None
    /\ human_turn = FALSE
    /\ msg = ""
    /\ result = None

EngineInit ==
    /\ board = new_board
    /\ current = "X"
    /\ pc = "idle"
    /\ ret = NoRet
    /\ mm = NoMM
    /\ selfplay = TRUE
    /\ GameVarsIdle

\* The marks a caller may ask a move for: the mark to move, and on the
\* empty board either mark (whichever side is given the opening move).
CallerMarks(b) == IF IsEmptyBoard(b) THEN {"X", "O"} ELSE {current}

\* best_move_for(board, ai)
CallBestMove ==
    /\ pc = "idle"
    /\ \E ai \in CallerMarks(board) :
          \E r \in best_move_for(board, ai) :
             /\ ret' = [move |-> r.move, board |-> r.board,
                        searched |-> r.searched, ai |-> ai]
             /\ board' = r.board
    /\ pc' = "called_best_move"
    /\ UNCHANGED <<current, human_player, ai_player, first, human_turn, msg,
                   mm, selfplay, result>>

\* minimax(board, current, current == 'X', alpha, beta)
CallMinimax ==
    /\ pc = "idle"
    /\ \E w \in Windows :
          \* the root call of a search is the only call on an empty board
          /\ IsEmptyBoard(board) => w = FullWindow
          /\ \E r \in {minimax(board, current, current = "X", w[1], w[2])} :
                /\ mm' = [score |-> r.score, move |-> r.move,
                           board |-> r.board, alpha |-> w[1], beta |-> w[2]]
                /\ board' = r.board
    /\ pc' = "called_minimax"
    /\ UNCHANGED <<current, human_player, ai_player, first, human_turn, msg,
                   ret, selfplay, result>>

\* The caller places the mark best_move_for returned.
PlayBest ==
    /\ pc = "called_best_move"
    /\ ret.ai = current
    /\ ret.move # NoMove
    /\ board' = [board EXCEPT ![ret.move] = current]
    /\ current' = opponent(current)
    /\ pc' = "idle"
    /\ ret' = NoRet
    /\ UNCHANGED <<human_player, ai_player, first, human_turn, msg, mm,
                   selfplay, result>>

\* The caller places a mark of its own choice.
PlayAny ==
    /\ pc = "idle"
    /\ ~game_over(board)
    /\ \E mv \in Cells :
          /\ board[mv] = None
          /\ board' = [board EXCEPT ![mv] = current]
    /\ current' = opponent(current)
    /\ selfplay' = FALSE
    /\ UNCHANGED <<human_player, ai_player, first, human_turn, msg, pc, ret,
                   mm, result>>

EngineNext == CallBestMove \/ CallMinimax \/ PlayBest \/ PlayAny

EngineSpec == EngineInit /\ [][EngineNext]_vars

(***************************************************************************)
(* Reference: the game-theoretic value of a board, by backward induction   *)
(* from the boards with 9 marks.  +1: X wins, -1: O wins, 0: draw, the     *)
(* scale of minimax.                                                       *)
(***************************************************************************)
Count(b, m) == Cardinality({i \in Cells : b[i] = m})

NumMarks(b) == Cardinality({i \in Cells : b[i] # None})

\* X moves first and the marks alternate.
ToMove(b) == IF Count(b, "X") = Count(b, "O") THEN "X" ELSE "O"

\* The boards with as many X as O, or one X more.
AltBoards ==
    {b \in [Cells -> {"X", "O", None}] : Count(b, "X") - Count(b, "O") \in {0, 1}}

Layer(k) == {b \in AltBoards : NumMarks(b) = k}

TerminalScore(b) ==
    IF check_winner(b) = "X" THEN 1 ELSE IF check_winner(b) = "O" THEN -1 ELSE 0

SetMax(S) == CHOOSE x \in S : \A y \in S : y <= x

SetMin(S) == CHOOSE x \in S : \A y \in S : x <= y

\* The value of b from the values of the boards one mark deeper.
BackUp(b, deeper) ==
    IF game_over(b) THEN TerminalScore(b)
    ELSE LET next == {deeper[[b EXCEPT ![i] = ToMove(b)]] :
                         i \in {j \in Cells : b[j] = None}}
         IN  IF ToMove(b) = "X" THEN SetMax(next) ELSE SetMin(next)

RECURSIVE ValuesFrom(_)
\* The values of all boards with k marks or more, as one table.
ValuesFrom(k) ==
    IF k = 9 THEN [b \in Layer(9) |-> TerminalScore(b)] @@ << >>
    ELSE LET deeper == ValuesFrom(k + 1)
         IN  [b \in Layer(k) |-> BackUp(b, deeper)] @@ deeper

ValueTable == ValuesFrom(0)

\* The value of b with the mark ToMove(b) to move, under unpruned minimax.
PlainValue(b) == ValueTable[b]

(***************************************************************************)
(* Claims                                                                  *)
(***************************************************************************)
\* C1: in play_game the board never holds a completed line of the human's
\* mark, for either mark, any first-mover answer, any opening cell and any
\* legal human moves.
AINeverLoses ==
    pc \in {"loop", "done"} => check_winner(board) # human_player

\* C1 witness: a game the AI opened (the human took O) has ended in a draw.
AINeverLosesWitness ==
    /\ pc = "done"
    /\ human_player = "O"
    /\ result = "draw"
    /\ is_board_full(board)

\* C2: a game in which every mark was placed from best_move_for, X first,
\* goes on until the board is full and ends there without a winner: while the
\* game is not over best_move_for returns an empty cell, and once it is over
\* the board is full and no line is complete.
SelfPlayDraws ==
    /\ (selfplay /\ game_over(board))
          => (is_board_full(board) /\ check_winner(board) = None)
    /\ (selfplay /\ pc = "called_best_move" /\ ~game_over(board))
          => (ret.move \in Cells /\ board[ret.move] = None)

\* C2 witness: such a game has ended.
SelfPlayDrawsWitness ==
    selfplay /\ pc = "idle" /\ is_board_full(board)

\* The empty cells that complete a line for mark m on b.
WinningCells(b, m) ==
    {i \in Cells : b[i] = None /\ check_winner([b EXCEPT ![i] = m]) = m}

\* best_move_for has just searched a board on which the game is not over.
SearchedOpenBoard ==
    pc = "called_best_move" /\ ret.searched /\ ~game_over(board)

\* The examples of the specification: X at 0,1 and O at 3,4; O at 0,1 and X
\* at 3.  X is to move on both.
WinExample == [new_board EXCEPT ![0] = "X", ![1] = "X", ![3] = "O", ![4] = "O"]

BlockExample == [new_board EXCEPT ![0] = "O", ![1] = "O", ![3] = "X"]

\* C3 as stated: on a non-empty board on which the game is not over,
\* whenever the mover can complete a line, best_move_for returns a cell that
\* completes one; on WinExample it returns 2.
TakesImmediateWin ==
    /\ (SearchedOpenBoard /\ WinningCells(board, current) # {})
          => ret.move \in WinningCells(board, current)
    /\ (SearchedOpenBoard /\ board = WinExample) => ret.move = 2

\* C4 as stated: on a non-empty board on which the game is not over,
\* whenever the mover cannot complete a line and the opponent can,
\* best_move_for returns a cell that would complete an opponent line; on
\* BlockExample it returns 2.
BlocksImmediateWin ==
    /\ (/\ SearchedOpenBoard
        /\ WinningCells(board, current) = {}
        /\ WinningCells(board, opponent(current)) # {})
          => ret.move \in WinningCells(board, opponent(current))
    /\ (SearchedOpenBoard /\ board = BlockExample) => ret.move = 2

\* The value of b is a win for mark m.
WonFor(b, m) == PlainValue(b) = (IF m = "X" THEN 1 ELSE -1)

\* C5: from every AI turn on a board whose value is a win for the AI's mark,
\* the game ends with a completed line of the AI's mark.
AIConvertsWin ==
    (AITurn /\ WonFor(board, ai_player))
        ~> (pc = "done" /\ check_winner(board) = ai_player)

\* C5 witness: a game the AI has won has ended.
AIConvertsWinWitness ==
    /\ pc = "done"
    /\ check_winner(board) = ai_player
    /\ result = "AI wins"

\* C6: after minimax(board, current, current = 'X', -inf, +inf) the score
\* equals the value of the board under unpruned minimax.
PrunedEqualsPlain ==
    (pc = "called_minimax" /\ mm.alpha = NegInf /\ mm.beta = PosInf)
        => mm.score = PlainValue(board)

\* C6 witness: a full-window search of a board with one mark has returned.
PrunedEqualsPlainWitness ==
    /\ pc = "called_minimax"
    /\ mm.alpha = NegInf /\ mm.beta = PosInf
    /\ NumMarks(board) = 1
    /\ mm.move # NoMove

\* C7: a call of best_move_for or minimax leaves every cell of the board as
\* it was when the call started.
SearchRestoresBoard ==
    [][(pc = "idle" /\ pc' \in {"called_best_move", "called_minimax"})
          => board' = board]_vars

\* C7 witness: a search with a narrowed window has returned on a board on
\* which the game is not over.
SearchRestoresBoardWitness ==
    /\ pc = "called_minimax"
    /\ mm.alpha = 0
    /\ ~game_over(board)
    /\ NumMarks(board) = 2

\* The mark of the only mark on the board.
OnlyMark(b) == CHOOSE m \in {"X", "O"} : \E i \in Cells : b[i] = m

\* C8 as stated: the first mark of a game is the human's when the answer to
\* the first-mover prompt was empty or H, and the AI's when it was A.
FirstMoverAsChosen ==
    (pc \in {"loop", "done"} /\ NumMarks(board) = 1)
        => (OnlyMark(board) = human_player <=> first # "A")

\* The centre and the four corners.
CenterAndCorners == {4} \cup {0, 2, 6, 8}

\* C9: on the empty board best_move_for returns a cell of the centre and
\* corners without running the search, for either mark, and each of these
\* cells can be returned.
OpeningFromCenterAndCorners ==
    /\ (pc = "called_best_move" /\ IsEmptyBoard(board))
          => (ret.move \in CenterAndCorners /\ ~ret.searched)
    /\ (pc = "idle" /\ IsEmptyBoard(board))
          => \A c \in CenterAndCorners, m \in {"X", "O"} :
                ENABLED (CallBestMove /\ ret'.move = c /\ ret'.ai = m)

\* C9 witness: best_move_for has answered for O on the empty board.
OpeningFromCenterAndCornersWitness ==
    /\ pc = "called_best_move"
    /\ IsEmptyBoard(board)
    /\ ret.ai = "O"
    /\ ret.move = 8

\* The announcement agrees with check_winner.
ReportAgrees ==
    /\ result = "draw" <=> check_winner(board) = None
    /\ result = "AI wins" <=> check_winner(board) = ai_player
    /\ result = "human wins" <=> check_winner(board) = human_player

\* C10: when the human answers every prompt with an accepted input in the
\* end, the loop reaches a board on which game_over holds, exits and
\* announces the winner check_winner returns, or a draw.
GameTerminates ==
    <>(pc = "done" /\ game_over(board) /\ NumMarks(board) <= 9 /\ ReportAgrees)

\* C10 witness: a game has ended with every cell taken.
GameTerminatesWitness ==
    /\ pc = "done"
    /\ NumMarks(board) = 9
    /\ result \in {"draw", "AI wins"}
    /\ first = "A"

\* The three messages human_move prints before it asks again.
RejectMessages ==
    {"Please enter a valid number (1-9).",
     "Please enter a number from 1 to 9.",
     "That spot is already taken. Choose another."}

\* The loop is at a turn of the human: human_move is about to read an input.
HumanTurn == pc = "loop" /\ ~game_over(board) /\ HumanBranch

\* C11: a step at a turn of the human either rejects the input, leaving the
\* board, the turn flag and the current mark as they were and asking again
\* with one of the three messages, or places the human's mark on a cell in
\* 0..8 that was empty; and no step of the loop changes a cell that holds a
\* mark.
InvalidInputKeepsState ==
    [][/\ HumanTurn =>
             \/ /\ board' = board
                /\ current' = current
                /\ human_turn' = human_turn
                /\ pc' = "loop"
                /\ msg' \in RejectMessages
             \/ \E i \in Cells :
                   /\ board[i] = None
                   /\ board' = [board EXCEPT ![i] = human_player]
       /\ pc = "loop" =>
             \A i \in Cells : board[i] # None => board'[i] = board[i]]_vars

\* C11 witness: the human has named a taken cell on a board with five marks
\* and is asked again.
InvalidInputKeepsStateWitness ==
    /\ pc = "loop"
    /\ msg = "That spot is already taken. Choose another."
    /\ NumMarks(board) = 5
    /\ current = human_player

\* C12: between the turns of play_game the board holds as many X as O, or
\* one X more, whichever mark the human took and whoever was named to move
\* first.
MarkCountsBalanced ==
    pc \in {"loop", "done"} => Count(board, "X") - Count(board, "O") \in {0, 1}

\* C12 witness: five marks are on the board of a game in which the human
\* took O and named the AI to move first.
MarkCountsBalancedWitness ==
    /\ pc = "loop"
    /\ human_player = "O"
    /\ first = "A"
    /\ Count(board, "X") = 3
    /\ Count(board, "O") = 2

\* The empty cells of b on which the mark to move keeps the value of b: the
\* moves that are optimal under unpruned minimax.
OptimalCells(b) ==
    {i \in Cells : /\ b[i] = None
                   /\ PlainValue([b EXCEPT ![i] = ToMove(b)]) = PlainValue(b)}

\* C13: on a board that is neither empty nor terminal best_move_for returns
\* the lowest-index empty cell among the cells that are optimal under
\* unpruned minimax for the mark to move.
LowestOptimalMove ==
    (SearchedOpenBoard /\ ret.ai = ToMove(board))
        => /\ ret.move \in OptimalCells(board)
           /\ \A i \in OptimalCells(board) : ret.move <= i

\* C13 witness: best_move_for has returned for O a cell above cell 0 of a
\* board on which cell 0 is empty and several cells are optimal.
LowestOptimalMoveWitness ==
    /\ SearchedOpenBoard
    /\ ret.ai = "O"
    /\ board[0] = None
    /\ ret.move > 0
    /\ Cardinality(OptimalCells(board)) >= 2
    /\ OptimalCells(board) # {i \in Cells : board[i] = None}

\* C14: whatever the window, minimax returns a score in {-1, 0, +1}; it
\* returns no move exactly on a board with a winner or without an empty
\* cell, and on any other board the move is a cell that is empty on it.
MinimaxResultShape ==
    pc = "called_minimax"
        => /\ mm.score \in {-1, 0, 1}
           /\ mm.move = NoMove
                 <=> (check_winner(board) # None
                        \/ \A i \in Cells : board[i] # None)
           /\ mm.move # NoMove => (mm.move \in Cells /\ board[mm.move] = None)

\* C14 witness: a search of a board with empty cells has returned a move
\* under a window that is not the full one.
MinimaxResultShapeWitness ==
    /\ pc = "called_minimax"
    /\ mm.alpha = 0 /\ mm.beta = 1
    /\ mm.move \in Cells
    /\ NumMarks(board) = 4

\* The eight lines of three cells.
Lines ==
    {{0, 1, 2}, {3, 4, 5}, {6, 7, 8}, {0, 3, 6}, {1, 4, 7}, {2, 5, 8},
     {0, 4, 8}, {2, 4, 6}}

\* The mark m holds a whole line of b.
HasLine(b, m) == \E L \in Lines : \A i \in L : b[i] = m

\* A line is completed on b or no cell of b is empty.
TerminalBoard(b) ==
    HasLine(b, "X") \/ HasLine(b, "O") \/ \A i \in Cells : b[i] # None

\* C15: once a line is completed or the board is full, the only step of the
\* loop is the exit to the report: no mark is placed, no input is read by
\* human_move (no message is printed), best_move_for is not called, and
\* the turn does not pass.
NoMoveOnTerminalBoard ==
    [][(pc = "loop" /\ TerminalBoard(board))
          => /\ pc' = "done"
             /\ board' = board
             /\ msg' = msg
             /\ current' = current
             /\ human_turn' = human_turn]_vars

\* C15 witness: a game has ended on a completed line with empty cells left
\* on the board.
NoMoveOnTerminalBoardWitness ==
    /\ pc = "done"
    /\ HasLine(board, ai_player)
    /\ NumMarks(board) = 6

\* C16: every mark placed in the loop is the mark in current, on a cell
\* that was empty; current is X when the loop is entered, passes to the
\* other mark with every placed mark and stays otherwise; and whenever the
\* loop is about to call best_move_for, ai_player is current and is the
\* mark to move on the board by the count of the marks.
PlacedMarkIsCurrent ==
    [][/\ (pc = "ask_first" /\ pc' = "loop") => current' = "X"
       /\ (pc = "loop" /\ board' # board)
             => /\ \E i \in Cells :
                      /\ board[i] = None
                      /\ board' = [board EXCEPT ![i] = current]
                /\ current' = opponent(current)
       /\ (pc = "loop" /\ board' = board) => current' = current
       /\ AITurn => (ai_player = current /\ ai_player = ToMove(board))]_vars

\* C16 witness: the AI, holding O, has placed the fourth mark of a game in
\* which the human was named to move first.
PlacedMarkIsCurrentWitness ==
    /\ pc = "loop"
    /\ ai_player = "O"
    /\ first = "H"
    /\ current = "X"
    /\ Count(board, "O") = 2
    /\ Count(board, "X") = 2

\* C17: on every board of play_game at most one of X and O holds a whole
\* line, and check_winner returns a mark exactly when that mark holds a
\* line, whichever of the eight lines it is: the order of the scan does not
\* matter.
OneWinnerAtMost ==
    pc \in {"loop", "done"}
        => /\ ~(HasLine(board, "X") /\ HasLine(board, "O"))
           /\ \A m \in {"X", "O"} : check_winner(board) = m <=> HasLine(board, m)

\* C17 witness: a game has ended on a board on which the winner holds two
\* lines at once.
OneWinnerAtMostWitness ==
    /\ pc = "done"
    /\ \E m \in {"X", "O"} :
          /\ check_winner(board) = m
          /\ Cardinality({L \in Lines : \A i \in L : board[i] = m}) = 2

\* C18: called on a board without an empty cell and without a winner,
\* best_move_for returns no cell index (None) and leaves the board as it
\* was.
NoMoveFromFullBoard ==
    [][(/\ pc = "idle"
        /\ \A i \in Cells : board[i] # None
        /\ ~HasLine(board, "X") /\ ~HasLine(board, "O")
        /\ pc' = "called_best_move")
          => (ret'.move = NoMove /\ ret'.move \notin Cells /\ board' = board)]_vars

\* C18 witness: best_move_for has returned on a full board without a winner.
NoMoveFromFullBoardWitness ==
    /\ pc = "called_best_move"
    /\ ret.searched
    /\ NumMarks(board) = 9
    /\ ~HasLine(board, "X") /\ ~HasLine(board, "O")

====
